---- MODULE Spec2Model ----
(***************************************************************************)
(* Model of the Tetris board engine (models/game.py: TetrisBoard), the     *)
(* piece catalogue (models/tetromino.py) and the score endpoints of the    *)
(* web application (app.py).  Python's 0-based rows/columns are kept for   *)
(* coordinates; the sequences holding the grid and the shape matrices are  *)
(* 1-based, so cell (x, y) is g[y + 1][x + 1].                             *)
(***************************************************************************)
EXTENDS Integers, Sequences, FiniteSets, TLC

VARIABLES width, height, grid, current_piece, next_piece,
          score, lines_cleared, level, game_over,
          op, args, result, tried, spawn_failed, locks,
          Player, Score

vars == <<width, height, grid, current_piece, next_piece,
          score, lines_cleared, level, game_over,
          op, args, result, tried, spawn_failed, locks,
          Player, Score>>

session == <<width, height, grid, current_piece, next_piece,
             score, lines_cleared, level, game_over>>

----------------------------------------------------------------------------
(* Bounds of the model *)

\* lock_piece calls with a piece that one session makes; no piece is spawned
\* once they are used up
MaxLocks == 2
\* number of classes of PIECE_CLASSES that random.choice draws, T and I first
NumClasses == 2

----------------------------------------------------------------------------
(* Piece catalogue: models/tetromino.py *)

None == "None"

PIECE_CLASSES == <<"I", "O", "T", "S", "Z", "J", "L">>

get_shape(t) ==
    CASE t = "I" -> << <<0,0,0,0>>, <<1,1,1,1>>, <<0,0,0,0>>, <<0,0,0,0>> >>
      [] t = "O" -> << <<1,1>>, <<1,1>> >>
      [] t = "T" -> << <<0,1,0>>, <<1,1,1>>, <<0,0,0>> >>
      [] t = "S" -> << <<0,1,1>>, <<1,1,0>>, <<0,0,0>> >>
      [] t = "Z" -> << <<1,1,0>>, <<0,1,1>>, <<0,0,0>> >>
      [] t = "J" -> << <<1,0,0>>, <<1,1,1>>, <<0,0,0>> >>
      [] t = "L" -> << <<0,0,1>>, <<1,1,1>>, <<0,0,0>> >>

get_color(t) ==
    CASE t = "I" -> "#00F0F0"
      [] t = "O" -> "#F0F000"
      [] t = "T" -> "#A000F0"
      [] t = "S" -> "#00F000"
      [] t = "Z" -> "#F00000"
      [] t = "J" -> "#0000F0"
      [] t = "L" -> "#F0A000"

\* Tetromino.__init__: a piece of class t at anchor (x, y), rotation 0.
Tetromino(t, x, y) ==
    [type |-> t, x |-> x, y |-> y, rotation |-> 0,
     shape |-> get_shape(t), color |-> get_color(t)]

\* The absent piece (Python None in current_piece).
NoPiece ==
    [type |-> None, x |-> 0, y |-> 0, rotation |-> 0,
     shape |-> <<>>, color |-> None]

\* shape[::-1]: the rows in reverse order.
ReverseRows(s) == [i \in 1..Len(s) |-> s[Len(s) + 1 - i]]

\* zip(*s): the transpose of a matrix.
Zip(s) == IF Len(s) = 0 THEN <<>>
          ELSE [i \in 1..Len(s[1]) |-> [j \in 1..Len(s) |-> s[j][i]]]

\* Tetromino.rotate counting the rotation index without the wrap at 4.
rotate_NoWrap(p, clockwise) ==
    IF p.type = "O" THEN p
    ELSE [p EXCEPT
            !.shape = IF clockwise THEN Zip(ReverseRows(p.shape))
                      ELSE ReverseRows(Zip(p.shape)),
            !.rotation = p.rotation + (IF clockwise THEN 1 ELSE -1)]

\* Tetromino.rotate turning the matrix clockwise whatever the direction asked.
rotate_AlwaysClockwise(p, clockwise) ==
    IF p.type = "O" THEN p
    ELSE [p EXCEPT
            !.shape = Zip(ReverseRows(p.shape)),
            !.rotation = (p.rotation + (IF clockwise THEN 1 ELSE -1)) % 4]

\* Tetromino.rotate without the override of O_Piece.
rotate_NoOverride(p, clockwise) ==
    [p EXCEPT
       !.shape = IF clockwise THEN Zip(ReverseRows(p.shape))
                 ELSE ReverseRows(Zip(p.shape)),
       !.rotation = (p.rotation + (IF clockwise THEN 1 ELSE -1)) % 4]

\* Tetromino.rotate / O_Piece.rotate, as a function of the piece.
rotate(p, clockwise) ==
    IF p.type = "O" THEN p
    ELSE [p EXCEPT
            !.shape = IF clockwise THEN Zip(ReverseRows(p.shape))
                      ELSE ReverseRows(Zip(p.shape)),
            !.rotation = (p.rotation + (IF clockwise THEN 1 ELSE -1)) % 4]

\* create_random_piece(x = 4, y = 0): random.choice over PIECE_CLASSES.
SpawnX == 4
SpawnY == 0
\* The indices into PIECE_CLASSES in the order the model admits the classes:
\* T (rotates with kicks) and I (fills half a row of 8) come first.
DrawOrder == <<3, 1, 2, 4, 5, 6, 7>>
RandomPieces ==
    {Tetromino(PIECE_CLASSES[DrawOrder[i]], SpawnX, SpawnY) : i \in 1..NumClasses}

\* The filled cells of a piece as (column, row) offsets inside its matrix.
FilledCells(p) ==
    {c \in (0..(Len(p.shape) - 1)) \X (0..(Len(p.shape) - 1)) :
        p.shape[c[2] + 1][c[1] + 1] = 1}

\* The cells of the shape matrix in the order get_blocks scans them: row by
\* row, left to right, as (column, row).
ScanOrder(p) ==
    [k \in 1..(Len(p.shape) * Len(p.shape)) |->
        <<(k - 1) % Len(p.shape), (k - 1) \div Len(p.shape)>>]

\* Tetromino.get_blocks reporting the cells without the anchor.
get_blocks_Relative(p) ==
    LET Filled(c) == p.shape[c[2] + 1][c[1] + 1] = 1
    IN  SelectSeq(ScanOrder(p), Filled)

\* Tetromino.get_blocks: the board coordinates of the filled cells.
get_blocks(p) ==
    LET Filled(c) == p.shape[c[2] + 1][c[1] + 1] = 1
        cells == SelectSeq(ScanOrder(p), Filled)
    IN  [i \in 1..Len(cells) |-> <<p.x + cells[i][1], p.y + cells[i][2]>>]

----------------------------------------------------------------------------
(* Board engine: models/game.py *)

EmptyRow(w) == [x \in 1..w |-> None]
EmptyGrid(w, h) == [y \in 1..h |-> EmptyRow(w)]

\* is_valid_position without the new_y >= 0 test: Python then reads
\* grid[new_y] with a negative index, which counts from the last row.
is_valid_position_NoTopGuard(p, dx, dy, g, w, h) ==
    \A c \in FilledCells(p) :
        LET new_x == p.x + c[1] + dx
            new_y == p.y + c[2] + dy
        IN  /\ ~(new_x < 0 \/ new_x >= w)
            /\ ~(new_y >= h)
            /\ ~(new_y >= -h /\ g[(new_y % h) + 1][new_x + 1] # None)

\* TetrisBoard.is_valid_position(piece, dx, dy) on grid g of size w x h.
is_valid_position(p, dx, dy, g, w, h) ==
    \A c \in FilledCells(p) :
        LET new_x == p.x + c[1] + dx
            new_y == p.y + c[2] + dy
        IN  /\ ~(new_x < 0 \/ new_x >= w)
            /\ ~(new_y >= h)
            /\ ~(new_y >= 0 /\ g[new_y + 1][new_x + 1] # None)

\* The kick list with the right kick listed before the left kick.
kicks_RightFirst == << <<0, 0>>, <<1, 0>>, <<-1, 0>>, <<0, -1>> >>

\* The kick list with the left kick tried last.
kicks_LeftLast == << <<0, 0>>, <<1, 0>>, <<0, -1>>, <<-1, 0>> >>

\* The wall kicks of rotate_piece, in the order they are tried.
kicks == << <<0, 0>>, <<-1, 0>>, <<1, 0>>, <<0, -1>> >>

\* rotate_piece committing the first kick of the list without testing it.
FirstKick_Untested(p, g, w, h) == 1

\* Index of the first kick that gives a valid position, 0 if none does.
FirstKick(p, g, w, h) ==
    LET ok == {i \in 1..Len(kicks) :
                 is_valid_position(p, kicks[i][1], kicks[i][2], g, w, h)}
    IN  IF ok = {} THEN 0 ELSE CHOOSE i \in ok : \A j \in ok : i <= j

\* rotate_piece without the revert of lines 125-127.
RotatedPiece_NoRevert(p, g, w, h) ==
    LET r == rotate(p, TRUE)
        k == FirstKick(r, g, w, h)
    IN  IF is_valid_position(r, 0, 0, g, w, h) THEN r
        ELSE IF k # 0 THEN [r EXCEPT !.x = r.x + kicks[k][1],
                                     !.y = r.y + kicks[k][2]]
        ELSE r

\* rotate_piece restoring the shape but not the rotation index.
RotatedPiece_KeepsIndex(p, g, w, h) ==
    LET r == rotate(p, TRUE)
        k == FirstKick(r, g, w, h)
    IN  IF is_valid_position(r, 0, 0, g, w, h) THEN r
        ELSE IF k # 0 THEN [r EXCEPT !.x = r.x + kicks[k][1],
                                     !.y = r.y + kicks[k][2]]
        ELSE [p EXCEPT !.rotation = r.rotation]

\* The piece after rotate_piece, and the value rotate_piece returns.
RotatedPiece(p, g, w, h) ==
    LET r == rotate(p, TRUE)
        k == FirstKick(r, g, w, h)
    IN  IF is_valid_position(r, 0, 0, g, w, h) THEN r
        ELSE IF k # 0 THEN [r EXCEPT !.x = r.x + kicks[k][1],
                                     !.y = r.y + kicks[k][2]]
        ELSE p

RotateResult(p, g, w, h) ==
    LET r == rotate(p, TRUE)
    IN  is_valid_position(r, 0, 0, g, w, h) \/ FirstKick(r, g, w, h) # 0

\* The offsets rotate_piece passes to is_valid_position, in call order:
\* the check of line 114, then the kicks up to the first valid one.
TriedOffsets(p, g, w, h) ==
    LET r == rotate(p, TRUE)
        k == FirstKick(r, g, w, h)
    IN  IF is_valid_position(r, 0, 0, g, w, h) THEN << <<0, 0>> >>
        ELSE << <<0, 0>> >> \o SubSeq(kicks, 1, IF k # 0 THEN k ELSE Len(kicks))

\* move_piece committing dx and forgetting dy.
MovedPiece_DropsDy(p, dx, dy) == [p EXCEPT !.x = @ + dx]

\* move_piece reporting success and leaving the piece where it is.
MovedPiece_Stays(p, dx, dy) == p

\* move_piece, lines 91-92: the piece after a successful move.
MovedPiece(p, dx, dy) == [p EXCEPT !.x = @ + dx, !.y = @ + dy]

\* drop_piece: the number of times move_piece(0, 1) succeeds in a row.
RECURSIVE rows_dropped(_, _, _, _)
\* drop_piece giving up after its first downward step.
rows_dropped_OneStep(p, g, w, h) ==
    IF is_valid_position(p, 0, 1, g, w, h) THEN 1 ELSE 0

rows_dropped(p, g, w, h) ==
    IF is_valid_position(p, 0, 1, g, w, h)
    THEN 1 + rows_dropped([p EXCEPT !.y = p.y + 1], g, w, h)
    ELSE 0

\* lock_piece testing board_y > 0 instead of board_y >= 0.
WriteCells_SkipTopRow(p, g) ==
    [y \in 1..Len(g) |->
        [x \in 1..Len(g[y]) |->
            IF \E c \in FilledCells(p) :
                   /\ p.y + c[2] > 0
                   /\ p.y + c[2] = y - 1
                   /\ p.x + c[1] = x - 1
            THEN p.color ELSE g[y][x]]]

\* The position of shape cell c in lock_piece's scan, row by row.
ScanIndex(p, c) == c[2] * Len(p.shape) + c[1]

\* The filled cells for which grid[board_y][board_x] = color raises IndexError:
\* board_y >= 0 passes the test of line 156, then the row index is past the
\* last row, or the column index is outside -width..width-1.
RaisingCells(p, w, h) ==
    {c \in FilledCells(p) :
        /\ p.y + c[2] >= 0
        /\ (p.y + c[2] >= h \/ p.x + c[1] >= w \/ p.x + c[1] < -w)}

\* The scan position at which lock_piece raises, -1 when it does not.
FirstIndexError(p, w, h) ==
    LET bad == {ScanIndex(p, c) : c \in RaisingCells(p, w, h)}
    IN  IF bad = {} THEN -1
        ELSE CHOOSE k \in bad : \A j \in bad : k <= j

\* lock_piece, lines 151-157, interrupted at scan position k: the grid with
\* the cells scanned before k written. A negative column index counts from
\* the right end of the row.
WritePrefix(p, g, k) ==
    [y \in 1..Len(g) |->
        [x \in 1..Len(g[y]) |->
            IF \E c \in FilledCells(p) :
                   /\ ScanIndex(p, c) < k
                   /\ p.y + c[2] >= 0
                   /\ p.y + c[2] = y - 1
                   /\ (p.x + c[1]) % Len(g[y]) = x - 1
            THEN p.color ELSE g[y][x]]]

\* lock_piece, lines 151-157: the grid after the piece's cells are written.
\* A negative column index counts from the right end of the row.
WriteCells(p, g) ==
    [y \in 1..Len(g) |->
        [x \in 1..Len(g[y]) |->
            IF \E c \in FilledCells(p) :
                   /\ p.y + c[2] >= 0
                   /\ p.y + c[2] = y - 1
                   /\ (p.x + c[1]) % Len(g[y]) = x - 1
            THEN p.color ELSE g[y][x]]]

\* clear_lines, lines 169-173: the complete rows, as Python row indices,
\* in ascending order.
RowFull(row) == \A x \in 1..Len(row) : row[x] # None

RECURSIVE LinesFrom(_, _)
LinesFrom(g, y) ==
    IF y >= Len(g) THEN <<>>
    ELSE (IF RowFull(g[y + 1]) THEN <<y>> ELSE <<>>) \o LinesFrom(g, y + 1)

lines_to_clear(g) == LinesFrom(g, 0)

\* del self.grid[y]
DelRow(g, y) == SubSeq(g, 1, y) \o SubSeq(g, y + 2, Len(g))

\* clear_lines walking lines_to_clear from its last entry to its first.
RECURSIVE RemoveLines_Descending(_, _, _)
RemoveLines_Descending(g, ls, w) ==
    IF ls = <<>> THEN g
    ELSE RemoveLines_Descending(<<EmptyRow(w)>> \o DelRow(g, ls[Len(ls)]),
                                SubSeq(ls, 1, Len(ls) - 1), w)

\* clear_lines, lines 175-177: delete each listed row and insert an empty
\* row at index 0, one listed row after the other.
RECURSIVE RemoveLines(_, _, _)
RemoveLines(g, ls, w) ==
    IF ls = <<>> THEN g
    ELSE RemoveLines(<<EmptyRow(w)>> \o DelRow(g, Head(ls)), Tail(ls), w)

scores == <<40, 100, 300, 1200>>

Min(a, b) == IF a < b THEN a ELSE b

\* clear_lines recomputing the level before the score is awarded.
Counters_LevelFirst(n, s, lc, lvl) ==
    IF n > 0
    THEN LET lc1 == lc + n
             lvl1 == 1 + (lc1 \div 10)
             s1 == s + scores[Min(n - 1, 3) + 1] * lvl1
         IN  [score |-> s1, lines_cleared |-> lc1, level |-> lvl1]
    ELSE [score |-> s, lines_cleared |-> lc, level |-> lvl]

\* clear_lines recomputing the level before lines_cleared is increased.
Counters_StaleLevel(n, s, lc, lvl) ==
    IF n > 0
    THEN LET lvl1 == 1 + (lc \div 10)
             lc1 == lc + n
             s1 == s + scores[Min(n - 1, 3) + 1] * lvl
         IN  [score |-> s1, lines_cleared |-> lc1, level |-> lvl1]
    ELSE [score |-> s, lines_cleared |-> lc, level |-> lvl]

\* clear_lines, lines 179-187: the counters after lines_count = n rows are
\* cleared, assigned in the order of the code (lines, then score at the
\* level still in effect, then level).
Counters(n, s, lc, lvl) ==
    IF n > 0
    THEN LET lc1 == lc + n
             s1 == s + scores[Min(n - 1, 3) + 1] * lvl
             lvl1 == 1 + (lc1 \div 10)
         IN  [score |-> s1, lines_cleared |-> lc1, level |-> lvl1]
    ELSE [score |-> s, lines_cleared |-> lc, level |-> lvl]

\* spawn_piece drawing the new piece before promoting: both fields end up
\* holding the new piece.
Promoted_DrawFirst(held, drawn) == [current |-> drawn, next |-> drawn]

\* spawn_piece, lines 38-39: the held next piece becomes current, the piece
\* just drawn becomes next.
Promoted(held, drawn) == [current |-> held, next |-> drawn]

\* spawn_piece that returns False without setting the flag.
GameOverAfterSpawn_Unset(valid, go) == go

\* spawn_piece, lines 42-44: the game-over flag after the validity check.
GameOverAfterSpawn(valid, go) == IF ~valid THEN TRUE ELSE go

----------------------------------------------------------------------------
(* A session played from construction: TetrisBoard(width, height) *)

BoardSizes == {<<8, 2>>}

Init ==
    /\ \E b \in BoardSizes :
          /\ width = b[1]
          /\ height = b[2]
          /\ grid = EmptyGrid(b[1], b[2])
    /\ current_piece = NoPiece
    /\ next_piece \in RandomPieces
    /\ score = 0
    /\ lines_cleared = 0
    /\ level = 1
    /\ game_over = FALSE
    /\ op = "init"
    /\ args = <<>>
    /\ tried = <<>>
    /\ result = None
    /\ spawn_failed = FALSE
    /\ locks = 0
    /\ Player = <<>>
    /\ Score = <<>>

\* spawn_piece() drawing the new next piece from pieces, while the session
\* has locks left of max
spawn_piece(pieces, max) ==
    /\ locks < max
    /\ \E n \in pieces :
          LET s == Promoted(next_piece, n)
              valid == is_valid_position(s.current, 0, 0, grid, width, height)
          IN  /\ current_piece' = s.current
              /\ next_piece' = s.next
              /\ game_over' = GameOverAfterSpawn(valid, game_over)
              /\ result' = valid
              /\ spawn_failed' = (spawn_failed \/ ~valid)
    /\ op' = "spawn"
    /\ args' = <<>>
    /\ tried' = <<>>
    /\ UNCHANGED <<Player, Score>>
    /\ UNCHANGED <<width, height, grid, score, lines_cleared, level, locks>>

SpawnPiece == spawn_piece(RandomPieces, MaxLocks)

\* The offsets move_piece documents: left, right, down.
MoveOffsets == {<<-1, 0>>, <<1, 0>>, <<0, 1>>}

\* move_piece(dx, dy) for (dx, dy) in offsets
move_piece(offsets) ==
    \E d \in offsets :
        /\ IF current_piece = NoPiece
           THEN /\ result' = FALSE
                /\ UNCHANGED current_piece
           ELSE IF is_valid_position(current_piece, d[1], d[2], grid, width, height)
           THEN /\ current_piece' = MovedPiece(current_piece, d[1], d[2])
                /\ result' = TRUE
           ELSE /\ result' = FALSE
                /\ UNCHANGED current_piece
        /\ op' = "move"
        /\ args' = d
        /\ tried' = <<>>
        /\ UNCHANGED <<Player, Score>>
        /\ UNCHANGED <<width, height, grid, next_piece, score, lines_cleared,
                       level, game_over, spawn_failed, locks>>

MovePiece == move_piece(MoveOffsets)

\* rotate_piece() without the test of lines 103-104: a call with no piece
\* reports success.
RotatePiece_NoGuard ==
    /\ IF current_piece = NoPiece
       THEN /\ result' = TRUE
            /\ tried' = <<>>
            /\ UNCHANGED current_piece
       ELSE /\ current_piece' = RotatedPiece(current_piece, grid, width, height)
            /\ result' = RotateResult(current_piece, grid, width, height)
            /\ tried' = TriedOffsets(current_piece, grid, width, height)
    /\ op' = "rotate"
    /\ args' = <<>>
    /\ UNCHANGED <<Player, Score>>
    /\ UNCHANGED <<width, height, grid, next_piece, score, lines_cleared,
                   level, game_over, spawn_failed, locks>>

\* rotate_piece()
RotatePiece ==
    /\ IF current_piece = NoPiece
       THEN /\ result' = FALSE
            /\ tried' = <<>>
            /\ UNCHANGED current_piece
       ELSE /\ current_piece' = RotatedPiece(current_piece, grid, width, height)
            /\ result' = RotateResult(current_piece, grid, width, height)
            /\ tried' = TriedOffsets(current_piece, grid, width, height)
    /\ op' = "rotate"
    /\ args' = <<>>
    /\ UNCHANGED <<Player, Score>>
    /\ UNCHANGED <<width, height, grid, next_piece, score, lines_cleared,
                   level, game_over, spawn_failed, locks>>

\* drop_piece() that locks the piece where it lands.
DropPiece_Locks ==
    /\ IF current_piece = NoPiece
       THEN /\ result' = 0
            /\ UNCHANGED <<current_piece, grid>>
       ELSE LET n == rows_dropped(current_piece, grid, width, height)
            IN  /\ current_piece' = [current_piece EXCEPT !.y = @ + n]
                /\ grid' = WriteCells([current_piece EXCEPT !.y = @ + n], grid)
                /\ result' = n
    /\ op' = "drop"
    /\ args' = <<>>
    /\ tried' = <<>>
    /\ UNCHANGED <<Player, Score>>
    /\ UNCHANGED <<width, height, next_piece, score, lines_cleared,
                   level, game_over, spawn_failed, locks>>

\* drop_piece()
DropPiece ==
    /\ IF current_piece = NoPiece
       THEN /\ result' = 0
            /\ UNCHANGED current_piece
       ELSE LET n == rows_dropped(current_piece, grid, width, height)
            IN  /\ current_piece' = [current_piece EXCEPT !.y = @ + n]
                /\ result' = n
    /\ op' = "drop"
    /\ args' = <<>>
    /\ tried' = <<>>
    /\ UNCHANGED <<Player, Score>>
    /\ UNCHANGED <<width, height, grid, next_piece, score, lines_cleared,
                   level, game_over, spawn_failed, locks>>

\* lock_piece(), with the clear_lines() call that ends it. result is None for
\* a call that returns and "IndexError" for a call that raises.
lock_piece(max) ==
    /\ IF current_piece = NoPiece
       THEN /\ result' = None
            /\ UNCHANGED <<grid, current_piece, score, lines_cleared, level,
                           locks>>
       ELSE /\ locks < max
            /\ locks' = locks + 1
            /\ LET k == FirstIndexError(current_piece, width, height)
               IN  IF k >= 0
                   THEN /\ grid' = WritePrefix(current_piece, grid, k)
                        /\ result' = "IndexError"
                        /\ UNCHANGED <<current_piece, score, lines_cleared,
                                       level>>
                   ELSE LET g == WriteCells(current_piece, grid)
                            ls == lines_to_clear(g)
                            c == Counters(Len(ls), score, lines_cleared, level)
                        IN  /\ grid' = RemoveLines(g, ls, width)
                            /\ score' = c.score
                            /\ lines_cleared' = c.lines_cleared
                            /\ level' = c.level
                            /\ current_piece' = NoPiece
                            /\ result' = None
    /\ op' = "lock"
    /\ args' = <<>>
    /\ tried' = <<>>
    /\ UNCHANGED <<Player, Score>>
    /\ UNCHANGED <<width, height, next_piece, game_over, spawn_failed>>

LockPiece == lock_piece(MaxLocks)

\* A board narrower than the column span of a piece at the spawn anchor.
NarrowSizes == {<<6, 2>>}

InitNarrow ==
    /\ \E b \in NarrowSizes :
          /\ width = b[1]
          /\ height = b[2]
          /\ grid = EmptyGrid(b[1], b[2])
    /\ current_piece = NoPiece
    /\ next_piece \in RandomPieces
    /\ score = 0
    /\ lines_cleared = 0
    /\ level = 1
    /\ game_over = FALSE
    /\ op = "init"
    /\ args = <<>>
    /\ tried = <<>>
    /\ result = None
    /\ spawn_failed = FALSE
    /\ locks = 0
    /\ Player = <<>>
    /\ Score = <<>>

Next ==
    \/ SpawnPiece
    \/ MovePiece
    \/ RotatePiece
    \/ DropPiece
    \/ LockPiece

Spec == Init /\ [][Next]_vars

SpecNarrow == InitNarrow /\ [][Next]_vars

----------------------------------------------------------------------------
(* A session on a board of five columns and six rows, where the spawn      *)
(* anchor puts every I piece across the right wall; the caller stacks the  *)
(* pieces on the left and rotates the last one only                        *)

TallSizes == {<<5, 6>>}

\* Locks of one session on the tall board: five I pieces on the left, one
\* lock that raises, one I piece on the right.
TallLocks == 7

\* The draws of create_random_piece admitted on the tall board: I.
TallPieces == {Tetromino(PIECE_CLASSES[1], SpawnX, SpawnY)}

\* The offsets of move_piece admitted on the tall board: from the spawn
\* anchor to the left wall, to the left wall far above the board, and from
\* there down to the right wall.
TallOffsets == {<<-4, 0>>, <<-4, -6>>, <<2, 8>>}

InitTall ==
    /\ \E b \in TallSizes :
          /\ width = b[1]
          /\ height = b[2]
          /\ grid = EmptyGrid(b[1], b[2])
    /\ current_piece = NoPiece
    /\ next_piece \in TallPieces
    /\ score = 0
    /\ lines_cleared = 0
    /\ level = 1
    /\ game_over = FALSE
    /\ op = "init"
    /\ args = <<>>
    /\ tried = <<>>
    /\ result = None
    /\ spawn_failed = FALSE
    /\ locks = 0
    /\ Player = <<>>
    /\ Score = <<>>

\* rotate_piece(), called by this caller for the last piece only.
RotateLast == locks = TallLocks - 1 /\ RotatePiece

NextTall ==
    \/ spawn_piece(TallPieces, TallLocks)
    \/ move_piece(TallOffsets)
    \/ RotateLast
    \/ DropPiece
    \/ lock_piece(TallLocks)

SpecTall == InitTall /\ [][NextTall]_vars

----------------------------------------------------------------------------
(* A session on the narrow board whose caller also reads the board:       *)
(* get_board_state()                                                       *)

\* The dictionary get_board_state builds.
get_board_state(g, cp, np, s, lc, lvl, go) ==
    [grid |-> g,
     current_piece |-> IF cp = NoPiece THEN [present |-> FALSE]
                       ELSE [present |-> TRUE,
                             blocks |-> get_blocks(cp),
                             color |-> cp.color],
     next_piece |-> IF np = NoPiece THEN [present |-> FALSE]
                    ELSE [present |-> TRUE,
                          shape |-> np.shape,
                          color |-> np.color],
     score |-> s,
     lines |-> lc,
     level |-> lvl,
     game_over |-> go]

\* get_board_state()
GetBoardState ==
    /\ result' = get_board_state(grid, current_piece, next_piece, score,
                                 lines_cleared, level, game_over)
    /\ op' = "get_board_state"
    /\ args' = <<>>
    /\ tried' = <<>>
    /\ UNCHANGED <<Player, Score>>
    /\ UNCHANGED <<width, height, grid, current_piece, next_piece, score,
                   lines_cleared, level, game_over, spawn_failed, locks>>

NextState ==
    \/ SpawnPiece
    \/ MovePiece
    \/ RotatePiece
    \/ DropPiece
    \/ LockPiece
    \/ GetBoardState

SpecState == InitNarrow /\ [][NextState]_vars

----------------------------------------------------------------------------
(* clear_lines() applied to a given grid and given counters *)

ClearSizes == {<<2, 5>>}
ClearColor == get_color("I")
\* lines already cleared when clear_lines is called
InitLines == {0, 8, 9, 21, 24}

\* The score of a session that cleared L lines one row at a time.
RECURSIVE SinglesScore(_)
SinglesScore(L) ==
    IF L = 0 THEN 0 ELSE SinglesScore(L - 1) + scores[1] * (1 + ((L - 1) \div 10))

InitClear ==
    /\ \E b \in ClearSizes :
          /\ width = b[1]
          /\ height = b[2]
          /\ grid \in [1..b[2] -> [1..b[1] -> {None, ClearColor}]]
    /\ current_piece = NoPiece
    /\ next_piece = Tetromino("I", SpawnX, SpawnY)
    /\ \E L \in InitLines :
          /\ lines_cleared = L
          /\ level = 1 + (L \div 10)
          /\ score = SinglesScore(L)
    /\ game_over = FALSE
    /\ op = "init"
    /\ args = <<>>
    /\ tried = <<>>
    /\ result = None
    /\ spawn_failed = FALSE
    /\ locks = 0
    /\ Player = <<>>
    /\ Score = <<>>

\* clear_lines()
ClearLines ==
    /\ LET ls == lines_to_clear(grid)
           c == Counters(Len(ls), score, lines_cleared, level)
       IN  /\ grid' = RemoveLines(grid, ls, width)
           /\ score' = c.score
           /\ lines_cleared' = c.lines_cleared
           /\ level' = c.level
           /\ result' = Len(ls)
    /\ op' = "clear"
    /\ args' = <<>>
    /\ tried' = <<>>
    /\ UNCHANGED <<Player, Score>>
    /\ UNCHANGED <<width, height, current_piece, next_piece, game_over,
                   spawn_failed, locks>>

NextClear == ClearLines

SpecClear == InitClear /\ [][NextClear]_vars

----------------------------------------------------------------------------
(* is_valid_position(piece, dx, dy) applied to a given piece and grid *)

ValidSizes == {<<4, 2>>}
AnchorXs == -1..1
AnchorYs == -2..1
Offsets == {<<0, 0>>, <<-1, 0>>, <<1, 0>>, <<0, 1>>, <<0, -1>>}

\* A piece of class t at anchor (x, y) after r clockwise rotate() calls.
RECURSIVE Rotated(_, _)
Rotated(p, r) == IF r = 0 THEN p ELSE Rotated(rotate(p, TRUE), r - 1)

InitValid ==
    /\ \E b \in ValidSizes :
          /\ width = b[1]
          /\ height = b[2]
          /\ grid \in [1..b[2] -> [1..b[1] -> {None, ClearColor}]]
    /\ \E i \in 1..Len(PIECE_CLASSES), r \in 0..3, x \in AnchorXs, y \in AnchorYs :
          current_piece = Rotated(Tetromino(PIECE_CLASSES[i], x, y), r)
    /\ next_piece = Tetromino("I", SpawnX, SpawnY)
    /\ score = 0
    /\ lines_cleared = 0
    /\ level = 1
    /\ game_over = FALSE
    /\ op = "init"
    /\ args = <<>>
    /\ tried = <<>>
    /\ result = None
    /\ spawn_failed = FALSE
    /\ locks = 0
    /\ Player = <<>>
    /\ Score = <<>>

\* is_valid_position(current_piece, dx, dy)
CheckPosition ==
    \E d \in Offsets :
        /\ op = "init"
        /\ result' = is_valid_position(current_piece, d[1], d[2], grid, width, height)
        /\ op' = "valid"
        /\ args' = d
        /\ tried' = <<>>
        /\ UNCHANGED <<Player, Score>>
        /\ UNCHANGED <<width, height, grid, current_piece, next_piece, score,
                       lines_cleared, level, game_over, spawn_failed, locks>>

NextValid == CheckPosition

SpecValid == InitValid /\ [][NextValid]_vars

----------------------------------------------------------------------------
(* rotate_piece() and drop_piece() applied to a given piece on a given grid *)

PieceSizes == {<<4, 3>>}

\* A session between two commands: no complete row, the stack below the top
\* row, the current piece of any class and rotation validly placed.
InitPiece ==
    /\ \E b \in PieceSizes :
          /\ width = b[1]
          /\ height = b[2]
          /\ grid \in [1..b[2] -> [1..b[1] -> {None, ClearColor}]]
          /\ grid[1] = EmptyRow(b[1])
    /\ lines_to_clear(grid) = <<>>
    /\ \E i \in 1..Len(PIECE_CLASSES), r \in 0..3, x \in AnchorXs, y \in AnchorYs :
          current_piece = Rotated(Tetromino(PIECE_CLASSES[i], x, y), r)
    /\ is_valid_position(current_piece, 0, 0, grid, width, height)
    /\ next_piece = Tetromino("I", SpawnX, SpawnY)
    /\ score = 0
    /\ lines_cleared = 0
    /\ level = 1
    /\ game_over = FALSE
    /\ op = "init"
    /\ args = <<>>
    /\ tried = <<>>
    /\ result = None
    /\ spawn_failed = FALSE
    /\ locks = 0
    /\ Player = <<>>
    /\ Score = <<>>

NextRotate == RotatePiece

SpecRotate == InitPiece /\ [][NextRotate]_vars

NextDrop == DropPiece

SpecDrop == InitPiece /\ [][NextDrop]_vars

----------------------------------------------------------------------------
(* drop_piece() step by step: one action per pass through its while loop.  *)
(* While the call runs, op is "dropping" and result holds rows_dropped.    *)

\* TetrisBoard(4, 3) after its first spawn_piece(): column 4 is off the board,
\* so the spawn is blocked and the session is over with the piece kept.
InitBlocked ==
    /\ \E b \in PieceSizes :
          /\ width = b[1]
          /\ height = b[2]
          /\ grid = EmptyGrid(b[1], b[2])
    /\ \E i \in 1..Len(PIECE_CLASSES) :
          current_piece = Tetromino(PIECE_CLASSES[i], SpawnX, SpawnY)
    /\ ~is_valid_position(current_piece, 0, 0, grid, width, height)
    /\ next_piece = Tetromino("I", SpawnX, SpawnY)
    /\ score = 0
    /\ lines_cleared = 0
    /\ level = 1
    /\ game_over = TRUE
    /\ op = "spawn"
    /\ args = <<>>
    /\ tried = <<>>
    /\ result = FALSE
    /\ spawn_failed = TRUE
    /\ locks = 0
    /\ Player = <<>>
    /\ Score = <<>>

InitLoop == InitPiece \/ InitBlocked

\* drop_piece(), lines 137-140: the call with a piece sets rows_dropped = 0
\* and enters the loop, the call with no piece returns 0.
DropBegin ==
    /\ op # "dropping"
    /\ op' = IF current_piece = NoPiece THEN "drop" ELSE "dropping"
    /\ result' = 0
    /\ args' = <<>>
    /\ tried' = <<>>
    /\ UNCHANGED <<Player, Score>>
    /\ UNCHANGED <<width, height, grid, current_piece, next_piece, score,
                   lines_cleared, level, game_over, spawn_failed, locks>>

\* Lines 141-142: move_piece(0, 1) succeeded, rows_dropped += 1.
DropStep ==
    /\ op = "dropping"
    /\ is_valid_position(current_piece, 0, 1, grid, width, height)
    /\ current_piece' = MovedPiece(current_piece, 0, 1)
    /\ result' = result + 1
    /\ UNCHANGED <<Player, Score>>
    /\ UNCHANGED <<width, height, grid, next_piece, score, lines_cleared,
                   level, game_over, op, args, tried, spawn_failed, locks>>

\* Lines 141 and 144: move_piece(0, 1) failed, return rows_dropped.
DropEnd ==
    /\ op = "dropping"
    /\ ~is_valid_position(current_piece, 0, 1, grid, width, height)
    /\ op' = "drop"
    /\ UNCHANGED <<Player, Score>>
    /\ UNCHANGED <<width, height, grid, current_piece, next_piece, score,
                   lines_cleared, level, game_over, args, result, tried,
                   spawn_failed, locks>>

NextLoop == DropBegin \/ DropStep \/ DropEnd

\* A call that was made runs on: the interpreter takes the next pass of the
\* loop, or leaves it, whenever it can.  Nothing obliges the caller to call.
SpecLoop ==
    /\ InitLoop
    /\ [][NextLoop]_vars
    /\ WF_vars(DropStep)
    /\ WF_vars(DropEnd)

----------------------------------------------------------------------------
(* Tetromino.rotate(clockwise) applied to a piece of each class *)

InitShape ==
    /\ width = 4
    /\ height = 3
    /\ grid = EmptyGrid(4, 3)
    /\ \E i \in 1..Len(PIECE_CLASSES), x \in AnchorXs, y \in AnchorYs :
          current_piece = Tetromino(PIECE_CLASSES[i], x, y)
    /\ next_piece = Tetromino("I", SpawnX, SpawnY)
    /\ score = 0
    /\ lines_cleared = 0
    /\ level = 1
    /\ game_over = FALSE
    /\ op = "init"
    /\ args = <<>>
    /\ tried = <<>>
    /\ result = None
    /\ spawn_failed = FALSE
    /\ locks = 0
    /\ Player = <<>>
    /\ Score = <<>>

\* piece.rotate(clockwise)
RotateShape ==
    \E cw \in BOOLEAN :
        /\ current_piece' = rotate(current_piece, cw)
        /\ op' = "piece.rotate"
        /\ args' = <<cw>>
        /\ tried' = <<>>
        /\ result' = None
        /\ UNCHANGED <<Player, Score>>
        /\ UNCHANGED <<width, height, grid, next_piece, score, lines_cleared,
                       level, game_over, spawn_failed, locks>>

NextShape == RotateShape

SpecShape == InitShape /\ [][NextShape]_vars

----------------------------------------------------------------------------
(* Score endpoints: app.py.  Player and Score hold the rows of the two     *)
(* tables in insertion order; a string is the sequence of its characters.  *)
(* Requests are handled one at a time.                                     *)

\* A JSON value of the payload: a key that is missing, a string, an integer.
\* wide marks a positive integer beyond the 64 bits of an SQLite INTEGER; its
\* num is not looked at beyond its sign.
Absent == [kind |-> "absent", str |-> <<>>, num |-> 0, wide |-> FALSE]
JsonStr(s) == [kind |-> "str", str |-> s, num |-> 0, wide |-> FALSE]
JsonInt(n) == [kind |-> "int", str |-> <<>>, num |-> n, wide |-> FALSE]
WideInt == [kind |-> "int", str |-> <<>>, num |-> 1, wide |-> TRUE]

\* str.strip(): leading and trailing blanks removed.
RECURSIVE lstrip(_)
lstrip(s) == IF s # <<>> /\ Head(s) = " " THEN lstrip(Tail(s)) ELSE s

RECURSIVE rstrip(_)
rstrip(s) ==
    IF s # <<>> /\ s[Len(s)] = " " THEN rstrip(SubSeq(s, 1, Len(s) - 1)) ELSE s

strip(s) == rstrip(lstrip(s))

\* data.get(key, default)
Get(v, default) == IF v.kind = "absent" THEN JsonInt(default) ELSE v

\* save_score without the test of the level.
Rejection_NoLevelTest(data) ==
    IF data.username.kind = "absent" \/ data.score.kind = "absent"
    THEN "Missing required data"
    ELSE IF data.username.kind # "str" \/ strip(data.username.str) = <<>>
    THEN "Invalid username"
    ELSE IF data.score.kind # "int" \/ data.score.num < 0
    THEN "Invalid score"
    ELSE IF Get(data.lines, 0).kind # "int" \/ Get(data.lines, 0).num < 0
    THEN "Invalid lines count"
    ELSE None

\* save_score, lines 85-104: the message of the 400 reply, None when the
\* payload passes.
Rejection(data) ==
    IF data.username.kind = "absent" \/ data.score.kind = "absent"
    THEN "Missing required data"
    ELSE IF data.username.kind # "str" \/ strip(data.username.str) = <<>>
    THEN "Invalid username"
    ELSE IF data.score.kind # "int" \/ data.score.num < 0
    THEN "Invalid score"
    ELSE IF Get(data.lines, 0).kind # "int" \/ Get(data.lines, 0).num < 0
    THEN "Invalid lines count"
    ELSE IF Get(data.level, 1).kind # "int" \/ Get(data.level, 1).num < 1
    THEN "Invalid level"
    ELSE None

\* Player.query.filter_by(username=name).first(): the row index, 0 for None.
FindPlayer(players, name) ==
    IF \E i \in 1..Len(players) : players[i].username = name
    THEN CHOOSE i \in 1..Len(players) :
            /\ players[i].username = name
            /\ \A j \in 1..(i - 1) : players[j].username # name
    ELSE 0

\* save_score looking the player up under the username as sent and storing
\* it stripped.
PlayersAfter_RawLookup(players, username) ==
    IF FindPlayer(players, username) = 0
    THEN Append(players, [id |-> Len(players) + 1, username |-> strip(username)])
    ELSE players

\* save_score, lines 107-111: the Player table after get-or-create.
PlayersAfter(players, username) ==
    IF FindPlayer(players, strip(username)) = 0
    THEN Append(players, [id |-> Len(players) + 1, username |-> strip(username)])
    ELSE players

\* save_score, lines 114-121: the Score table with the new row.
ScoresAfter(rows, players, data) ==
    Append(rows,
           [id |-> Len(rows) + 1,
            player_id |-> players[FindPlayer(players, strip(data.username.str))].id,
            score |-> data.score.num,
            lines_cleared |-> Get(data.lines, 0).num,
            level |-> Get(data.level, 1).num])

\* Score rows one session of requests stores
MaxScores == 2

\* The payloads posted.
Usernames ==
    {Absent, JsonInt(5), JsonStr(<<>>), JsonStr(<<" ">>), JsonStr(<<"a">>),
     JsonStr(<<" ", "a", " ">>), JsonStr(<<"b">>)}
ScoreValues == {Absent, JsonStr(<<"a">>), JsonInt(-1), JsonInt(7), WideInt}
LinesValues == {Absent, JsonInt(-1), JsonInt(3)}
LevelValues == {Absent, JsonInt(0)}
Payloads ==
    [username : Usernames, score : ScoreValues, lines : LinesValues,
     level : LevelValues]

InitScores ==
    /\ Player = <<>>
    /\ Score = <<>>
    /\ width = 1
    /\ height = 1
    /\ grid = EmptyGrid(1, 1)
    /\ current_piece = NoPiece
    /\ next_piece = Tetromino("I", SpawnX, SpawnY)
    /\ score = 0
    /\ lines_cleared = 0
    /\ level = 1
    /\ game_over = FALSE
    /\ op = "init"
    /\ args = <<>>
    /\ tried = <<>>
    /\ result = None
    /\ spawn_failed = FALSE
    /\ locks = 0

\* The INSERT of the Score row raises OverflowError for a column value that
\* SQLite cannot hold.
InsertRaises(data) ==
    data.score.wide \/ Get(data.lines, 0).wide \/ Get(data.level, 1).wide

\* POST /api/score.  The player is committed before the Score row is added, so
\* the rollback of a failed INSERT keeps a player created by the request.
save_score(payloads, max) ==
    \E data \in payloads :
        /\ IF Rejection(data) # None
           THEN /\ result' = [status |-> 400, success |-> FALSE,
                              message |-> Rejection(data)]
                /\ UNCHANGED <<Player, Score>>
           ELSE IF InsertRaises(data)
           THEN /\ Player' = PlayersAfter(Player, data.username.str)
                /\ UNCHANGED Score
                /\ result' = [status |-> 500, success |-> FALSE,
                              message |-> "OverflowError"]
           ELSE /\ Len(Score) < max
                /\ Player' = PlayersAfter(Player, data.username.str)
                /\ Score' = ScoresAfter(Score, Player', data)
                /\ result' = [status |-> 200, success |-> TRUE,
                              message |-> "Score saved successfully"]
        /\ op' = "save_score"
        /\ args' = <<data>>
        /\ tried' = <<>>
        /\ UNCHANGED <<width, height, grid, current_piece, next_piece, score,
                       lines_cleared, level, game_over, spawn_failed, locks>>

SaveScore == save_score(Payloads, MaxScores)

NextScores == SaveScore

SpecScores == InitScores /\ [][NextScores]_vars

----------------------------------------------------------------------------
(* GET /api/top-scores on tables filled by accepted submissions.           *)

\* Score.query.order_by(Score.score.desc()) putting the lowest score first.
Best_Lowest(rows, S, byId) ==
    CHOOSE i \in S : \A j \in S :
        \/ rows[j].score > rows[i].score
        \/ rows[j].score = rows[i].score /\ (IF byId THEN i <= j ELSE i >= j)

\* The row of S that order_by(Score.score.desc()) puts first.  SQL leaves the
\* order of rows with equal score open: byId takes them by ascending id, the
\* other outcome modelled is by descending id.
Best(rows, S, byId) ==
    CHOOSE i \in S : \A j \in S :
        \/ rows[j].score < rows[i].score
        \/ rows[j].score = rows[i].score /\ (IF byId THEN i <= j ELSE i >= j)

RECURSIVE Ordered(_, _, _)
Ordered(rows, S, byId) ==
    IF S = {}
    THEN <<>>
    ELSE LET b == Best(rows, S, byId)
         IN <<rows[b]>> \o Ordered(rows, S \ {b}, byId)

\* Score.query.order_by(Score.score.desc())
order_by_score_desc(rows, byId) == Ordered(rows, DOMAIN rows, byId)

\* .limit(n)
limit(rows, n) == SubSeq(rows, 1, Min(n, Len(rows)))

\* The number of rows get_top_scores asks for.
TopLimit == 10

\* Score.to_dict; player is the row player_id refers to.
to_dict(row, players) ==
    [id |-> row.id,
     username |-> players[CHOOSE p \in DOMAIN players :
                            players[p].id = row.player_id].username,
     score |-> row.score,
     lines_cleared |-> row.lines_cleared,
     level |-> row.level]

\* Score rows stored before the top scores are asked for
TopRows == 11

\* The submissions: player a scores 1, player b scores 2.
TopPayloads ==
    {[username |-> JsonStr(<<"a">>), score |-> JsonInt(1), lines |-> Absent,
      level |-> Absent],
     [username |-> JsonStr(<<"b">>), score |-> JsonInt(2), lines |-> Absent,
      level |-> Absent]}

\* The tables are empty or hold what an earlier submission of player a with
\* score 3 left in them.
InitTop ==
    /\ \/ Player = <<>> /\ Score = <<>>
       \/ /\ Player = PlayersAfter(<<>>, <<"a">>)
          /\ Score = ScoresAfter(<<>>, Player,
                                 [username |-> JsonStr(<<"a">>),
                                  score |-> JsonInt(3), lines |-> Absent,
                                  level |-> Absent])
    /\ width = 1
    /\ height = 1
    /\ grid = EmptyGrid(1, 1)
    /\ current_piece = NoPiece
    /\ next_piece = Tetromino("I", SpawnX, SpawnY)
    /\ score = 0
    /\ lines_cleared = 0
    /\ level = 1
    /\ game_over = FALSE
    /\ op = "init"
    /\ args = <<>>
    /\ tried = <<>>
    /\ result = None
    /\ spawn_failed = FALSE
    /\ locks = 0

\* GET /api/top-scores
GetTopScores ==
    \E byId \in BOOLEAN :
        /\ result' =
              LET top_scores == limit(order_by_score_desc(Score, byId), TopLimit)
              IN [status |-> 200,
                  scores |-> [i \in DOMAIN top_scores |->
                                to_dict(top_scores[i], Player)]]
        /\ op' = "get_top_scores"
        /\ args' = <<>>
        /\ tried' = <<>>
        /\ UNCHANGED <<Player, Score>>
        /\ UNCHANGED <<width, height, grid, current_piece, next_piece, score,
                       lines_cleared, level, game_over, spawn_failed, locks>>

NextTop == save_score(TopPayloads, TopRows) \/ GetTopScores

SpecTop == InitTop /\ [][NextTop]_vars

----------------------------------------------------------------------------
(* Properties *)

\* The number of occupied cells of a grid.
Occupied(g) ==
    Cardinality({c \in (1..Len(g)) \X (1..width) : g[c[1]][c[2]] # None})

\* Some filled cell of p, shifted by (dx, dy), lies left or right of the
\* board, below it, or on an occupied cell of a visible row.
BadPlacement(p, dx, dy) ==
    \E c \in FilledCells(p) :
        LET cx == p.x + c[1] + dx
            cy == p.y + c[2] + dy
        IN  \/ cx < 0
            \/ cx >= width
            \/ cy >= height
            \/ (cy >= 0 /\ grid[cy + 1][cx + 1] # None)

NotFull(row) == \E x \in 1..Len(row) : row[x] = None
FullCount(g) == Cardinality({y \in 1..Len(g) : ~NotFull(g[y])})

C2_GameOverIffSpawnFailed ==
    /\ [](game_over <=> spawn_failed)
    /\ [][(op' = "spawn" /\ result' = FALSE)
            <=> (op' = "spawn" /\ BadPlacement(current_piece', 0, 0))]_vars
    /\ [][game_over => game_over']_vars

C2_Witness == game_over /\ spawn_failed /\ op = "lock" /\ locks = 2

\* C3: once game_over is true no later spawn call returns success.
C3_NoSpawnAfterGameOver ==
    [][game_over => ~(op' = "spawn" /\ result' = TRUE)]_vars

\* C4: between commands the current piece, when present, is in a valid
\* position: inside the columns, above the floor, on no occupied cell.
C4_CurrentPieceValid ==
    current_piece # NoPiece => ~BadPlacement(current_piece, 0, 0)

\* C5 as claimed: whenever spawn, move, rotate or hard_drop reports failure
\* the whole session state is what it was before the call.
C5_FailureChangesNothing ==
    [][(\/ (op' \in {"spawn", "move", "rotate"} /\ result' = FALSE)
        \/ (op' = "drop" /\ result' = 0))
         => session' = session]_vars

\* C5 amended: a failed move, a failed rotate and a hard_drop of 0 rows leave
\* the whole session state as it was; a failed spawn promotes the next piece,
\* sets game_over and leaves the grid and the counters as they were.
C5_FailedMoveRotateDropChangeNothing ==
    [][/\ (\/ (op' \in {"move", "rotate"} /\ result' = FALSE)
           \/ (op' = "drop" /\ result' = 0))
          => session' = session
       /\ (op' = "spawn" /\ result' = FALSE)
          => /\ game_over'
             /\ current_piece' = next_piece
             /\ <<grid, score, lines_cleared, level>>'
                  = <<grid, score, lines_cleared, level>>]_vars

C5_Witness ==
    /\ op = "rotate"
    /\ result = FALSE
    /\ current_piece # NoPiece
    /\ current_piece.type # "O"

\* C6 as claimed: a lock with a current piece changes the number of occupied
\* cells by the piece's filled-cell count minus width times the rows cleared.
C6_LockAddsAllCells ==
    [][(op' = "lock" /\ current_piece # NoPiece)
         => Occupied(grid') = Occupied(grid)
                              + Cardinality(FilledCells(current_piece))
                              - width * (lines_cleared' - lines_cleared)]_vars

\* C6 amended: a lock with a current piece changes the number of occupied
\* cells by the number of the piece's filled cells that have y >= 0 and lie
\* on a cell that was empty, minus width times the rows cleared.
C6_LockAddsNewVisibleCells ==
    [][(op' = "lock" /\ current_piece # NoPiece)
         => LET new == {c \in FilledCells(current_piece) :
                          /\ current_piece.y + c[2] >= 0
                          /\ grid[current_piece.y + c[2] + 1]
                                 [current_piece.x + c[1] + 1] = None}
            IN  Occupied(grid') = Occupied(grid) + Cardinality(new)
                                  - width * (lines_cleared' - lines_cleared)]_vars

C6_Witness == op = "lock" /\ locks = 2 /\ lines_cleared = 1

\* C7: clear_lines returns the number n of complete rows; afterwards the grid
\* is n empty rows followed by the rows that were not complete, in their
\* order, it still has height rows, and lines_cleared has grown by n.
C7_ClearLinesResult ==
    [][op' = "clear"
         => LET n == FullCount(grid)
            IN  /\ result' = n
                /\ grid' = [y \in 1..n |-> EmptyRow(width)]
                             \o SelectSeq(grid, NotFull)
                /\ Len(grid') = height
                /\ lines_cleared' = lines_cleared + n]_vars

C7_Witness ==
    /\ op = "clear"
    /\ result = 2
    /\ grid[2] = EmptyRow(width)
    /\ grid[3] # EmptyRow(width)
    /\ grid[4] # grid[3]
    /\ grid[5] # grid[4]

\* C8: a clear_lines call that clears n >= 1 rows adds base[min(n, 4) - 1]
\* times the level in effect before the call to the score; a call that clears
\* no row leaves score, lines_cleared and level unchanged.
C8_ScoreIncrement ==
    [][op' = "clear"
         => LET n == FullCount(grid)
            IN  IF n >= 1
                THEN score' = score + scores[Min(n, 4)] * level
                ELSE /\ score' = score
                     /\ lines_cleared' = lines_cleared
                     /\ level' = level]_vars

C8_Witness ==
    /\ op = "clear"
    /\ result = 5
    /\ lines_cleared = 13
    /\ level = 2
    /\ score = SinglesScore(8) + 1200

\* C9: in every state level = 1 + floor(lines_cleared / 10), and no command
\* lowers the level.
C9_LevelFromLines ==
    /\ [](level = 1 + (lines_cleared \div 10))
    /\ [][level' >= level]_vars

C9_Witness == op = "clear" /\ result = 2 /\ lines_cleared = 10 /\ level = 2

\* C10: is_valid_position returns false exactly when some filled cell lands
\* left or right of the board, at y >= height, or at y >= 0 on an occupied
\* cell; cells at y < 0 are tested on x only.
C10_ValidPositionRule ==
    op = "valid" => (result = ~BadPlacement(current_piece, args[1], args[2]))

C10_Witness ==
    /\ op = "valid"
    /\ result = TRUE
    /\ \E c \in FilledCells(current_piece) : current_piece.y + c[2] + args[2] < 0
    /\ \E c \in FilledCells(current_piece) : current_piece.y + c[2] + args[2] >= 0
    /\ Occupied(grid) > 0

\* C11: move(dx, dy) with a current piece succeeds exactly when the piece is
\* valid at that offset; a success shifts the anchor by (dx, dy) and changes
\* nothing else, a failure changes nothing.
C11_MoveCommitsOffset ==
    [][(op' = "move" /\ current_piece # NoPiece)
         => LET ok == ~BadPlacement(current_piece, args'[1], args'[2])
            IN  /\ result' = ok
                /\ <<width, height, grid, next_piece, score, lines_cleared,
                     level, game_over>>'
                     = <<width, height, grid, next_piece, score, lines_cleared,
                         level, game_over>>
                /\ current_piece'.shape = current_piece.shape
                /\ current_piece'.rotation = current_piece.rotation
                /\ current_piece'.type = current_piece.type
                /\ current_piece'.color = current_piece.color
                /\ current_piece'.x = current_piece.x + (IF ok THEN args'[1] ELSE 0)
                /\ current_piece'.y = current_piece.y + (IF ok THEN args'[2] ELSE 0)]_vars

C11_Witness ==
    /\ op = "move"
    /\ args = <<0, 1>>
    /\ result = TRUE
    /\ current_piece.y = 0
    /\ Occupied(grid) > 0

\* A square matrix turned a quarter clockwise: row i of the result is
\* column i of s read from the bottom up.
QuarterTurn(s) ==
    [i \in 1..Len(s) |-> [j \in 1..Len(s) |-> s[Len(s) + 1 - j][i]]]

\* The kick order the specification fixes: none, left, right, up.
KickOrder == << <<0, 0>>, <<-1, 0>>, <<1, 0>>, <<0, -1>> >>

\* The kicks, by position in KickOrder, at which the quarter-turned current
\* piece is validly placed.
ValidKicks ==
    LET r == [current_piece EXCEPT !.shape = QuarterTurn(@)]
    IN  {i \in 1..Len(KickOrder) :
           ~BadPlacement(r, KickOrder[i][1], KickOrder[i][2])}

\* C12: rotate() with a current piece leaves the clockwise-rotated shape at
\* anchor + k for the first offset k of the order (0,0), (-1,0), (+1,0),
\* (0,-1) that is valid and returns success; it fails only when none is.
C12_RotateTakesFirstValidKick ==
    [][(op' = "rotate" /\ current_piece # NoPiece)
         => IF ValidKicks # {}
            THEN LET i == CHOOSE i \in ValidKicks : \A j \in ValidKicks : i <= j
                 IN  /\ result' = TRUE
                     /\ current_piece'.shape = QuarterTurn(current_piece.shape)
                     /\ current_piece'.x = current_piece.x + KickOrder[i][1]
                     /\ current_piece'.y = current_piece.y + KickOrder[i][2]
            ELSE result' = FALSE]_vars

C12_Witness ==
    /\ op = "rotate"
    /\ result = TRUE
    /\ tried = << <<0, 0>>, <<0, 0>>, <<-1, 0>> >>
    /\ current_piece.type = "T"
    /\ ~BadPlacement(current_piece, 2, 0)

\* C13: when no kick offset gives a valid placement, rotate() returns failure
\* and the piece keeps its shape, its rotation index and its anchor.
C13_FailedRotateRestoresPiece ==
    [][(op' = "rotate" /\ current_piece # NoPiece /\ ValidKicks = {})
         => /\ result' = FALSE
            /\ current_piece'.shape = current_piece.shape
            /\ current_piece'.rotation = current_piece.rotation
            /\ current_piece'.x = current_piece.x
            /\ current_piece'.y = current_piece.y]_vars

C13_Witness ==
    /\ op = "rotate"
    /\ result = FALSE
    /\ Len(tried) = 5
    /\ current_piece.type = "L"
    /\ current_piece.rotation = 1
    /\ Occupied(grid) > 0

\* The leftmost board column holding a filled cell of the piece.
LeftColumn(p) ==
    CHOOSE m \in {p.x + c[1] : c \in FilledCells(p)} :
        \A c \in FilledCells(p) : m <= p.x + c[1]

\* A T-piece against the left wall whose quarter turn is invalid at the
\* unchanged anchor and valid one column to the right.
TAgainstLeftWall ==
    /\ current_piece # NoPiece
    /\ current_piece.type = "T"
    /\ LeftColumn(current_piece) = 0
    /\ 1 \notin ValidKicks
    /\ 3 \in ValidKicks

InSeq(e, s) == \E i \in 1..Len(s) : s[i] = e

\* C14 as stated: rotating a T-piece against the left wall rejects the
\* unshifted placement and accepts the +1 column kick before the -1 column
\* kick or the row kick is tried.
C14_RightKickBeforeLeftKick ==
    [][(op' = "rotate" /\ TAgainstLeftWall)
         => /\ result' = TRUE
            /\ current_piece'.x = current_piece.x + 1
            /\ current_piece'.y = current_piece.y
            /\ ~InSeq(<<-1, 0>>, tried')
            /\ ~InSeq(<<0, -1>>, tried')]_vars

\* C14 amended: the unshifted placement is rejected, the -1 column kick is
\* tried next, and the +1 column kick is accepted only after the -1 column
\* kick was rejected; the row kick is then never tried.
C14_LeftKickRejectedFirst ==
    [][(op' = "rotate" /\ TAgainstLeftWall)
         => /\ result' = TRUE
            /\ SubSeq(tried', 1, 3) = << <<0, 0>>, <<0, 0>>, <<-1, 0>> >>
            /\ IF 2 \in ValidKicks
               THEN /\ Len(tried') = 3
                    /\ current_piece'.x = current_piece.x - 1
                    /\ current_piece'.y = current_piece.y
               ELSE /\ tried' = << <<0, 0>>, <<0, 0>>, <<-1, 0>>, <<1, 0>> >>
                    /\ current_piece'.x = current_piece.x + 1
                    /\ current_piece'.y = current_piece.y]_vars

C14_Witness ==
    /\ op = "rotate"
    /\ result = TRUE
    /\ current_piece.type = "T"
    /\ current_piece.rotation = 2
    /\ LeftColumn(current_piece) = 0
    /\ tried = << <<0, 0>>, <<0, 0>>, <<-1, 0>>, <<1, 0>> >>

\* C15: hard_drop() with a current piece returns the number k of successful
\* one-row steps down; the anchor ends at (x, y + k), one more step down would
\* fail, the piece is still current and otherwise the same, and the grid,
\* score, lines_cleared and level are unchanged.
C15_DropReturnsRowsFallen ==
    [][(op' = "drop" /\ current_piece # NoPiece)
         => /\ result' \in 0..height + 2
            /\ \A j \in 1..result' : ~BadPlacement(current_piece, 0, j)
            /\ BadPlacement(current_piece, 0, result' + 1)
            /\ current_piece' = [current_piece EXCEPT !.y = @ + result']
            /\ <<grid, score, lines_cleared, level, next_piece, game_over>>'
                 = <<grid, score, lines_cleared, level, next_piece, game_over>>]_vars

C15_Witness ==
    /\ op = "drop"
    /\ result = 2
    /\ current_piece # NoPiece
    /\ current_piece.type = "S"
    /\ \E c \in FilledCells(current_piece) :
          /\ current_piece.y + c[2] + 1 < height
          /\ grid[current_piece.y + c[2] + 2][current_piece.x + c[1] + 1] # None

\* The grid with the colour of piece p on every grid cell under one of its
\* filled cells; cells of p above row 0 lie on no grid cell.
Stamped(p, g) ==
    [y \in 1..Len(g) |->
        [x \in 1..Len(g[y]) |->
            IF \E c \in FilledCells(p) : p.y + c[2] = y - 1 /\ p.x + c[1] = x - 1
            THEN p.color ELSE g[y][x]]]

\* The grid with its complete rows taken out and as many empty rows on top.
Collapsed(g) ==
    LET kept == SelectSeq(g, NotFull)
    IN  [i \in 1..(Len(g) - Len(kept)) |-> [x \in 1..Len(g[1]) |-> None]] \o kept

\* C16: lock() with a current piece colours exactly the grid cells under the
\* piece's filled cells with y >= 0, then has no current piece, then clears
\* the complete rows; with no current piece lock() changes nothing.
C16_LockWritesPieceThenClears ==
    [][op' = "lock"
         => IF current_piece = NoPiece
            THEN session' = session
            ELSE /\ grid' = Collapsed(Stamped(current_piece, grid))
                 /\ current_piece' = NoPiece]_vars

\* A piece as the catalogue makes it: one of the seven variants with its base
\* shape and colour, rotation index 0.
FreshPiece(p) ==
    /\ \E i \in 1..Len(PIECE_CLASSES) : p.type = PIECE_CLASSES[i]
    /\ p.rotation = 0
    /\ p.shape = get_shape(p.type)
    /\ p.color = get_color(p.type)

\* C17: after every spawn() the current piece is the piece held as next
\* before the call (same variant, base shape, rotation index 0) and a newly
\* generated piece is held as next.
C17_SpawnPromotesNext ==
    [][op' = "spawn"
         => /\ current_piece'.type = next_piece.type
            /\ current_piece'.shape = get_shape(next_piece.type)
            /\ current_piece'.rotation = 0
            /\ current_piece' = next_piece
            /\ FreshPiece(next_piece')]_vars

C17_Witness ==
    /\ op = "spawn"
    /\ result = TRUE
    /\ locks >= 1
    /\ current_piece.type = "I"
    /\ next_piece.type = "T"

\* C18: for every board width, spawn() places the promoted piece at the
\* centred anchor x = floor(width / 2) - 1, y = 0.
C18_SpawnAnchorCentred ==
    [][op' = "spawn"
         => /\ current_piece'.x = (width \div 2) - 1
            /\ current_piece'.y = 0]_vars

\* C19: no call aborts by reading or writing a grid cell outside the grid;
\* lock() returns normally.
C19_NoCallAborts == op = "lock" => result # "IndexError"

\* C20: with no active piece, move and rotate return failure, hard_drop
\* returns 0 and lock does nothing, and the whole session state is unchanged.
C20_NoPieceCommandsAreNoOps ==
    [][(current_piece = NoPiece /\ op' \in {"move", "rotate", "drop", "lock"})
         => /\ session' = session
            /\ op' \in {"move", "rotate"} => result' = FALSE
            /\ op' = "drop" => result' = 0
            /\ op' = "lock" => result' = None]_vars

C20_Witness ==
    /\ op = "rotate"
    /\ result = FALSE
    /\ current_piece = NoPiece
    /\ locks >= 1
    /\ Occupied(grid) > 0

\* C21: every clear_lines() call reachable from a fresh session clears
\* between 0 and 4 rows.
C21_AtMostFourRowsCleared ==
    [][op' = "lock" => lines_cleared' - lines_cleared \in 0..4]_vars

\* C22: for every variant at every rotation, four clockwise rotate calls give
\* back the same matrix and the same rotation index; for O one rotate call
\* already leaves shape and rotation index as they are.
C22_FourTurnsIdentity ==
    /\ Rotated(current_piece, 4).shape = current_piece.shape
    /\ Rotated(current_piece, 4).rotation = current_piece.rotation
    /\ current_piece.type = "O"
         => /\ rotate(current_piece, TRUE) = current_piece
            /\ rotate(current_piece, FALSE) = current_piece

C22_Witness ==
    /\ op = "piece.rotate"
    /\ args = <<TRUE>>
    /\ current_piece.type = "S"
    /\ current_piece.rotation = 0

\* C23: clockwise and counter-clockwise rotation undo each other in either
\* order, for the matrix and for the rotation index.
C23_TurnsAreInverse ==
    /\ rotate(rotate(current_piece, TRUE), FALSE) = current_piece
    /\ rotate(rotate(current_piece, FALSE), TRUE) = current_piece

C23_Witness ==
    /\ op = "piece.rotate"
    /\ args = <<FALSE>>
    /\ current_piece.type = "L"
    /\ current_piece.rotation = 3
    /\ current_piece.shape # get_shape("L")

\* C24: get_board_state() changes no part of the session, and what it
\* reports for grid, score, lines, level, game_over, the current piece's cells
\* and colour and the next piece's shape and colour are the session's values
\* at the call.
C24_SnapshotReportsSession ==
    [][op' = "get_board_state"
         => /\ session' = session
            /\ result'.grid = grid
            /\ result'.score = score
            /\ result'.lines = lines_cleared
            /\ result'.level = level
            /\ result'.game_over = game_over
            /\ result'.current_piece.present = (current_piece # NoPiece)
            /\ current_piece # NoPiece
                 => /\ {result'.current_piece.blocks[i] :
                           i \in 1..Len(result'.current_piece.blocks)}
                         = {<<current_piece.x + c[1], current_piece.y + c[2]>> :
                              c \in FilledCells(current_piece)}
                    /\ Len(result'.current_piece.blocks)
                         = Cardinality(FilledCells(current_piece))
                    /\ result'.current_piece.color = get_color(current_piece.type)
            /\ result'.next_piece.present
            /\ result'.next_piece.shape = next_piece.shape
            /\ result'.next_piece.color = get_color(next_piece.type)]_vars

C24_Witness ==
    /\ op = "get_board_state"
    /\ game_over
    /\ current_piece # NoPiece
    /\ current_piece.rotation = 1
    /\ current_piece.x = 2
    /\ Occupied(grid) > 0
    /\ result.current_piece.present

\* A matrix quarter-turned clockwise n times.
RECURSIVE Turned(_, _)
Turned(s, n) == IF n = 0 THEN s ELSE Turned(QuarterTurn(s), n - 1)

\* C28: the current piece's rotation index is in 0..3 and its shape is its
\* variant's base shape turned clockwise that many times; a successful rotate
\* advances the index by 1 mod 4, a failed rotate leaves index and shape; for
\* O the index is always 0 and the shape always the base shape.
C28_ShapeMatchesRotationIndex ==
    /\ [](current_piece # NoPiece
            => /\ current_piece.rotation \in 0..3
               /\ current_piece.shape
                    = Turned(get_shape(current_piece.type), current_piece.rotation)
               /\ current_piece.type = "O"
                    => /\ current_piece.rotation = 0
                       /\ current_piece.shape = get_shape("O"))
    /\ [][(op' = "rotate" /\ current_piece # NoPiece)
            => IF result' /\ current_piece.type # "O"
               THEN current_piece'.rotation = (current_piece.rotation + 1) % 4
               ELSE /\ current_piece'.rotation = current_piece.rotation
                    /\ current_piece'.shape = current_piece.shape]_vars

C28_Witness ==
    /\ op = "rotate"
    /\ result = TRUE
    /\ current_piece.type = "J"
    /\ current_piece.rotation = 0
    /\ tried = << <<0, 0>> >>
    /\ Occupied(grid) > 0

\* C29: spawn, move, rotate and hard_drop never change the grid, the score,
\* lines_cleared or the level.
C29_OnlyLockChangesBoard ==
    [][op' \in {"spawn", "move", "rotate", "drop"}
         => <<grid, score, lines_cleared, level>>'
              = <<grid, score, lines_cleared, level>>]_vars

C29_Witness ==
    /\ op = "drop"
    /\ result = 1
    /\ locks = 1
    /\ Occupied(grid) > 0

\* C30: between commands the grid holds no completely occupied row.
C30_NoCompleteRowAtRest == FullCount(grid) = 0

\* The rows of the Player table that carry the username name.
PlayersNamed(players, name) ==
    {i \in 1..Len(players) : players[i].username = name}

\* The request just handled was accepted.
Accepted == op' = "save_score" /\ result'.status = 200

\* C25: after any sequence of score submissions no two Player rows share a
\* username and every stored username is stripped; an accepted submission
\* for a username unknown after stripping adds one Player row with it, one
\* for a known username leaves the Player table as it was, and either way
\* the Score table grows by exactly one row, whose player_id is the id of
\* the player with the stripped username.
C25_OnePlayerPerStrippedUsername ==
    /\ [](\A i, j \in 1..Len(Player) :
            /\ Player[i].username = strip(Player[i].username)
            /\ Player[i].username = Player[j].username => i = j)
    /\ [][Accepted =>
            LET name == strip(args'[1].username.str)
            IN /\ IF PlayersNamed(Player, name) = {}
                  THEN /\ Len(Player') = Len(Player) + 1
                       /\ SubSeq(Player', 1, Len(Player)) = Player
                       /\ Player'[Len(Player')].username = name
                  ELSE Player' = Player
               /\ Len(Score') = Len(Score) + 1
               /\ SubSeq(Score', 1, Len(Score)) = Score
               /\ \E i \in PlayersNamed(Player', name) :
                     Score'[Len(Score')].player_id = Player'[i].id]_vars

\* Two submissions under differently padded spellings of one username were
\* accepted, the second one with an untrimmed name, and share one player.
C25_Witness ==
    /\ op = "save_score"
    /\ result.status = 200
    /\ args[1].username.str = <<" ", "a", " ">>
    /\ Len(Player) = 1
    /\ Len(Score) = 2
    /\ Score[1].player_id = Score[2].player_id

\* The cases of an unacceptable payload: no username or no score, a username
\* that is empty or blank, a negative score, a negative lines count, a level
\* below 1.
Unacceptable(data) ==
    \/ data.username.kind = "absent"
    \/ data.score.kind = "absent"
    \/ data.username.kind = "str" /\ \A i \in 1..Len(data.username.str) :
                                        data.username.str[i] = " "
    \/ data.score.kind = "int" /\ data.score.num < 0
    \/ data.lines.kind = "int" /\ data.lines.num < 0
    \/ data.level.kind = "int" /\ data.level.num < 1

\* C26: a submission whose payload has no username or no score, an empty or
\* blank username, a negative score, a negative lines count or a level below
\* 1 is answered with status 400 and success = false, and the Player and
\* Score tables stay as they were.
C26_UnacceptablePayloadRejected ==
    [][op' = "save_score" /\ Unacceptable(args'[1]) =>
        /\ result'.status = 400
        /\ result'.success = FALSE
        /\ Player' = Player
        /\ Score' = Score]_vars

\* A payload whose only fault is its level was rejected with a score stored
\* beforehand.
C26_Witness ==
    /\ op = "save_score"
    /\ args[1].username = JsonStr(<<"a">>)
    /\ args[1].score = JsonInt(7)
    /\ args[1].lines = JsonInt(3)
    /\ args[1].level = JsonInt(0)
    /\ result.status = 400
    /\ Len(Score) = 1
    /\ Len(Player) = 1

\* The username of the player a stored Score row belongs to.
UsernameOf(row) ==
    Player[CHOOSE p \in DOMAIN Player : Player[p].id = row.player_id].username

\* C27: the top-scores query returns min(10, number of stored scores)
\* entries, each a different stored Score row with its score and the username
\* of the player the row belongs to, in non-increasing order of score, and no
\* stored row left out has a higher score than an entry returned.
C27_TopTenHighestScores ==
    [][op' = "get_top_scores" =>
        LET out == result'.scores
            ids == {out[i].id : i \in DOMAIN out}
        IN /\ result'.status = 200
           /\ Len(out) <= 10
           /\ Len(out) = Min(10, Len(Score))
           /\ \A i, j \in DOMAIN out : out[i].id = out[j].id => i = j
           /\ \A i \in DOMAIN out : \E r \in DOMAIN Score :
                 /\ Score[r].id = out[i].id
                 /\ Score[r].score = out[i].score
                 /\ UsernameOf(Score[r]) = out[i].username
           /\ \A i \in 1..(Len(out) - 1) : out[i].score >= out[i + 1].score
           /\ \A r \in DOMAIN Score : \A i \in DOMAIN out :
                 Score[r].id \notin ids => Score[r].score <= out[i].score]_vars

\* Eleven scores of two players are stored and the query returned ten of
\* them, from the highest score, 3, down to the lowest, 1.
C27_Witness ==
    /\ op = "get_top_scores"
    /\ Len(Score) = 11
    /\ Len(result.scores) = 10
    /\ result.scores[1].score = 3
    /\ result.scores[1].username = <<"a">>
    /\ result.scores[2].score = 2
    /\ result.scores[2].username = <<"b">>
    /\ result.scores[10].score = 1

\* C31: in every reachable state in which game_over is false, the current
\* piece, when there is one, is in a valid position: every filled cell lies
\* within the columns of the board, above its floor and, from row 0 down, on
\* an empty grid cell.
C31_PieceValidWhileNotOver ==
    ~game_over /\ current_piece # NoPiece =>
        is_valid_position(current_piece, 0, 0, grid, width, height)

\* The session is not over, cells are locked on the board, and the last
\* command was a rotation that succeeded through a kick.
C31_Witness ==
    /\ ~game_over
    /\ current_piece # NoPiece
    /\ Occupied(grid) > 0
    /\ op = "rotate"
    /\ result = TRUE
    /\ Len(tried) > 1

\* The board row of the lowest filled cell of piece p.
LowestRow(p) ==
    CHOOSE y \in {p.y + c[2] : c \in FilledCells(p)} :
        \A c \in FilledCells(p) : p.y + c[2] <= y

\* C32: hard_drop() always terminates: a call that entered the move(0, 1)
\* loop leaves it, from every state with a current piece, because every pass
\* of the loop takes the lowest filled cell of the piece one row down and
\* never below row height - 1.
C32_HardDropTerminates ==
    /\ (op = "dropping") ~> (op = "drop")
    /\ [][op = "dropping" /\ op' = "dropping" =>
            /\ LowestRow(current_piece') = LowestRow(current_piece) + 1
            /\ LowestRow(current_piece') <= height - 1
            /\ result' = result + 1]_vars

\* A hard drop returned after two passes of the loop, on a board with
\* locked cells, with the piece stopped by the stack above the floor.
C32_Witness ==
    /\ op = "drop"
    /\ result = 2
    /\ Occupied(grid) > 0
    /\ LowestRow(current_piece) < height - 1

====
